---------------------------- MODULE Spec2Model ----------------------------
(***************************************************************************)
(* A model of dnd-logseq-to-html.py: the exporter that turns the public    *)
(* pages of a Logseq graph into a static HTML site.                        *)
(*                                                                         *)
(* Texts (titles, block contents, file names) are sequences of one-        *)
(* character strings, so that the regular expressions and the string       *)
(* methods of the source can be modelled by what they do to characters.    *)
(***************************************************************************)
EXTENDS Integers, Sequences, FiniteSets, TLC

VARIABLES
    pages,           \* the page list the data source answers getAllPages with
    pc,              \* main's position
    public_pages,    \* the PublicPageSet (a dict in insertion order)
    api,             \* the answers the data source gave to get_public_pages
    idx,             \* the position of the loop main is in
    written,         \* the files of OUTPUT_DIR and who wrote each
    text,            \* the argument of the text function under study
    ret,             \* its return value
    stage,           \* which function has run
    dirs,            \* the file system: the entries of each candidate directory
    caseInsensitive  \* whether the file system folds case (macOS default)

mainVars == <<pages, pc, public_pages, api, idx, written>>
textVars == <<text, ret, stage>>
fsVars == <<dirs, caseInsensitive>>
vars == <<pages, pc, public_pages, api, idx, written, text, ret, stage,
          dirs, caseInsensitive>>

None == "None"

\* ------------------------------------------------------------------ bounds

MaxPages == 2

MaxTitleLen == 3

MaxPieces == 3

MaxLines == 3

MaxDirs == 2

MaxFiles == 2
\* Blocks of a page's block tree
MaxBlocks == 4

-----------------------------------------------------------------------------
\* Characters and the string methods the source uses

LowerLetters ==
    {"a","b","c","d","e","f","g","h","i","j","k","l","m",
     "n","o","p","q","r","s","t","u","v","w","x","y","z"}

UpperSeq ==
    <<"A","B","C","D","E","F","G","H","I","J","K","L","M",
      "N","O","P","Q","R","S","T","U","V","W","X","Y","Z">>

LowerSeq ==
    <<"a","b","c","d","e","f","g","h","i","j","k","l","m",
      "n","o","p","q","r","s","t","u","v","w","x","y","z">>

UpperLetters == {UpperSeq[k] : k \in 1..Len(UpperSeq)}

Digits == {"0","1","2","3","4","5","6","7","8","9"}

HexChars == Digits \cup {"a","b","c","d","e","f"}

IsSpace(c) == c \in {" ", "\t", "\n", "\r"}

\* str.lower() on one character
LowerChar(c) ==
    IF c \in UpperLetters
    THEN LowerSeq[CHOOSE k \in 1..Len(UpperSeq) : UpperSeq[k] = c]
    ELSE c

Lower(s) == [k \in 1..Len(s) |-> LowerChar(s[k])]

\* s[from:] of Python, with 1-based from
Tail_(s, from) == SubSeq(s, from, Len(s))

\* str.startswith
StartsWith(s, p) == Len(s) >= Len(p) /\ SubSeq(s, 1, Len(p)) = p

\* str.strip(): leading and trailing white space removed
Strip(s) ==
    LET keep == {k \in 1..Len(s) : ~IsSpace(s[k])}
    IN  IF keep = {} THEN <<>>
        ELSE SubSeq(s, CHOOSE k \in keep : \A j \in keep : k <= j,
                       CHOOSE k \in keep : \A j \in keep : k >= j)

\* All sequences over a set, up to a length
SeqsUpTo(S, n) == UNION {[1..k -> S] : k \in 0..n}

RECURSIVE Concat(_)
\* ''.join(parts)
Concat(parts) ==
    IF parts = <<>> THEN <<>> ELSE Head(parts) \o Concat(Tail(parts))

-----------------------------------------------------------------------------
\* sanitize_filename

SafeChars == LowerLetters \cup UpperLetters \cup Digits \cup {"-", "_"}

\* a sanitize_filename that forgets .lower()
sanitize_filename_nolower(title) ==
    LET dashed == [k \in 1..Len(title) |->
                      IF title[k] = "/" THEN "-" ELSE title[k]]
    IN  [k \in 1..Len(title) |->
            IF dashed[k] \in SafeChars THEN dashed[k] ELSE "_"]

sanitize_filename(title) ==
    LET dashed == [k \in 1..Len(title) |->
                      IF title[k] = "/" THEN "-" ELSE title[k]]
        safe_name == [k \in 1..Len(title) |->
                         IF dashed[k] \in SafeChars THEN dashed[k] ELSE "_"]
    IN  Lower(safe_name)

DotHtml == <<".", "h", "t", "m", "l">>


-----------------------------------------------------------------------------
\* The data source: page records as logseq.Editor.getAllPages returns them.
\* name is the value of page.get("name") or page.get("title", ""); public is
\* the value of properties["public"] ("absent": no such property, "bool_true":
\* the boolean True); uuid 0 is a missing or empty identifier.

TitleUniverse ==
    { <<"A">>, <<"A", "/", "b">>, <<" ", "A", "/", "b">>, <<"A", "b">>,
      <<"I", "n", "d", "e", "x">> }

PublicValues == {"absent", "bool_true", "true", "children"}

PageUniverse == [name : TitleUniverse, public : PublicValues, uuid : {0, 1}]

Title(page) == Strip(page.name)

get_page_property(page, property_name) ==
    IF page.public = "absent" THEN None ELSE page.public

is_page_public(page) ==
    get_page_property(page, "public") \in {"bool_true", "true", "children"}

is_public_children(page) == get_page_property(page, "public") = "children"

\* a get_nested_pages that forgets the "/" of base_path
get_nested_pages_noslash(page_name, pgs, ok) ==
    IF ~ok \/ pgs = <<>> THEN <<>>
    ELSE SelectSeq(pgs, LAMBDA p : StartsWith(Title(p), Strip(page_name)))

\* a get_nested_pages that compares the names as stored, not stripped
get_nested_pages_nostrip(page_name, pgs, ok) ==
    IF ~ok \/ pgs = <<>> THEN <<>>
    ELSE SelectSeq(pgs, LAMBDA p :
             StartsWith(p.name, Strip(page_name) \o <<"/">>))

\* ok: whether this call of getAllPages returned data
get_nested_pages(page_name, pgs, ok) ==
    IF ~ok \/ pgs = <<>> THEN <<>>
    ELSE LET base_path == Strip(page_name) \o <<"/">>
         IN  SelectSeq(pgs, LAMBDA p : StartsWith(Title(p), base_path))

Keys(pub) == {pub[k].title : k \in 1..Len(pub)}

\* add_page of get_public_pages; processed_pages is the key set of public_pages
add_page(pub, page) ==
    IF page.uuid # 0 /\ Title(page) # <<>> /\ Title(page) \notin Keys(pub)
    THEN Append(pub, [uuid |-> page.uuid, title |-> Title(page),
                      has_public_children |-> is_public_children(page)])
    ELSE pub

RECURSIVE add_pages(_, _)
\* for nested_page in nested_pages: add_page(nested_page)
add_pages(pub, nested) ==
    IF nested = <<>> THEN pub
    ELSE add_pages(add_page(pub, Head(nested)), Tail(nested))

RECURSIVE first_pass(_, _, _, _)
\* the loop of get_public_pages from page k on
first_pass(pub, pgs, answers, k) ==
    IF k > Len(pgs) THEN pub
    ELSE LET page == pgs[k]
             pub1 == IF is_page_public(page) THEN add_page(pub, page) ELSE pub
             pub2 == IF is_page_public(page) /\ is_public_children(page)
                     THEN add_pages(pub1, get_nested_pages(Title(page), pgs,
                                                          answers.nested[k]))
                     ELSE pub1
         IN  first_pass(pub2, pgs, answers, k + 1)

\* answers.list: whether the first getAllPages returned data; answers.nested[k]:
\* whether the one get_nested_pages makes for page k did
get_public_pages(pgs, answers) ==
    IF ~answers.list \/ pgs = <<>> THEN <<>>
    ELSE first_pass(<<>>, pgs, answers, 1)

\* The answers the data source can give: get_nested_pages is called for the
\* pages marked "children" only (TRUE stands where no call is made)
Answers(pgs) ==
    {a \in [list : BOOLEAN, nested : [1..Len(pgs) -> BOOLEAN]] :
        \A k \in 1..Len(pgs) :
            ~is_public_children(pgs[k]) => a.nested[k]}

-----------------------------------------------------------------------------
\* main

IndexHtml == <<"i", "n", "d", "e", "x">> \o DotHtml

\* open(filepath, "w").write(...): the file is created or replaced
WriteFile(files, filename, who) ==
    {f \in files : f.name # filename} \cup {[name |-> filename, by |-> who]}

MainInit ==
    /\ pages \in SeqsUpTo(PageUniverse, MaxPages)
    /\ pc = "start"
    /\ public_pages = <<>>
    /\ api = None
    /\ idx = 0
    /\ written = {}

\* main, lines 840-851: setup_output_directory, get_public_pages, sys.exit(1)
GetPublicPages ==
    /\ pc = "start"
    /\ \E answers \in Answers(pages) :
          /\ api' = answers
          /\ public_pages' = get_public_pages(pages, answers)
    /\ written' = {}
    /\ pc' = IF public_pages' = <<>> THEN "exit" ELSE "index"
    /\ idx' = 1
    /\ UNCHANGED pages

\* generate_index_page, one turn of its loop: get_first_sentence(title)
\* iterates the answer of getAllPages, which is None when the call failed
IndexEntry ==
    /\ pc = "index"
    /\ idx <= Len(public_pages)
    /\ \E allPagesOk \in BOOLEAN, blocksOk \in BOOLEAN :
          IF allPagesOk
          THEN pc' = "index" /\ idx' = idx + 1
          ELSE pc' = "halted" /\ idx' = idx
    /\ UNCHANGED <<pages, public_pages, api, written>>

\* generate_index_page, lines 239-242: index.html is written
WriteIndex ==
    /\ pc = "index"
    /\ idx > Len(public_pages)
    /\ written' = WriteFile(written, IndexHtml, "generate_index_page")
    /\ pc' = "loop"
    /\ idx' = 1
    /\ UNCHANGED <<pages, public_pages, api>>

PageFound(title) == \E k \in 1..Len(pages) : Title(pages[k]) = title

\* what export_page_to_html does with the answers of the data source:
\* "raise" (TypeError on iterating None), "none" (logged, None returned) or
\* "html"
export_page_to_html(title, allPagesOk, contentOk, blocksOk) ==
    IF ~allPagesOk THEN "raise"
    ELSE IF ~PageFound(title) THEN "none"
    ELSE IF ~contentOk THEN "none"
    ELSE IF ~blocksOk THEN "none"
    ELSE "html"

\* main, lines 859-873: one turn of the page loop
ExportPage ==
    /\ pc = "loop"
    /\ idx <= Len(public_pages)
    /\ \E allPagesOk \in BOOLEAN, contentOk \in BOOLEAN, blocksOk \in BOOLEAN :
          LET title == public_pages[idx].title
              html_content == export_page_to_html(title, allPagesOk,
                                                  contentOk, blocksOk)
          IN  CASE html_content = "raise" ->
                     pc' = "halted" /\ idx' = idx /\ written' = written
                [] html_content = "none" ->
                     pc' = "loop" /\ idx' = idx + 1 /\ written' = written
                [] OTHER ->
                     /\ pc' = "loop"
                     /\ idx' = idx + 1
                     /\ written' = WriteFile(written,
                                      sanitize_filename(title) \o DotHtml, title)
    /\ UNCHANGED <<pages, public_pages, api>>

\* main, line 875
Finish ==
    /\ pc = "loop"
    /\ idx > Len(public_pages)
    /\ pc' = "done"
    /\ UNCHANGED <<pages, public_pages, api, idx, written>>

IdleText == text = <<>> /\ ret = None /\ stage = "idle"

IdleFs == dirs = <<>> /\ caseInsensitive = FALSE

IdleMain ==
    /\ pages = <<>>
    /\ pc = "idle"
    /\ api = None
    /\ idx = 0
    /\ written = {}

IdlePublic == public_pages = <<>>

Init == MainInit /\ IdleText /\ IdleFs

Next ==
    \/ GetPublicPages /\ UNCHANGED <<textVars, fsVars>>
    \/ IndexEntry /\ UNCHANGED <<textVars, fsVars>>
    \/ WriteIndex /\ UNCHANGED <<textVars, fsVars>>
    \/ ExportPage /\ UNCHANGED <<textVars, fsVars>>
    \/ Finish /\ UNCHANGED <<textVars, fsVars>>

Spec == Init /\ [][Next]_vars

-----------------------------------------------------------------------------
\* Claims about main and get_public_pages

HasFile(filename) == \E f \in written : f.name = filename

\* C1 (as claimed): once main holds a non-empty PublicPageSet, no failure of
\* the data source while one page is processed halts the run: main never dies
\* of an exception, and index.html is written before the page loop and is
\* there at the end.
C1_PageFailureNeverHalts ==
    (pc # "start" /\ public_pages # <<>>) =>
        /\ pc # "halted"
        /\ (pc \in {"loop", "done"} => HasFile(IndexHtml))

Returned == pc # "start"

IsDescendant(q, p) == StartsWith(Title(q), Title(p) \o <<"/">>)

MarkedPublic(page) == page.public \in {"bool_true", "true", "children"}

\* C3: no private page leaks: every key of the PublicPageSet is the title of
\* a page marked public (true or children), or has the form T + "/" + rest
\* for a page T marked "children".
C3_NoPrivatePageLeaks ==
    Returned =>
        \A t \in Keys(public_pages) :
            \/ \E k \in 1..Len(pages) :
                  Title(pages[k]) = t /\ MarkedPublic(pages[k])
            \/ \E k \in 1..Len(pages) :
                  /\ pages[k].public = "children"
                  /\ StartsWith(t, Title(pages[k]) \o <<"/">>)

\* C3 witness: the set holds a page that is a member only as a descendant
C3_Witness ==
    /\ Returned
    /\ \E p \in 1..Len(pages), q \in 1..Len(pages) :
          /\ is_public_children(pages[p])
          /\ IsDescendant(pages[q], pages[p])
          /\ ~MarkedPublic(pages[q])
          /\ Title(pages[q]) \in Keys(public_pages)

-----------------------------------------------------------------------------
\* sanitize_filename applied to titles


TitleChars == {"A", "b", "Z", "7", "/", "-", "_", " ", "."}

SanitizeInit ==
    /\ text \in SeqsUpTo(TitleChars, MaxTitleLen)
    /\ ret = None
    /\ stage = "input"
    /\ IdleMain /\ IdlePublic /\ IdleFs

\* safe_name = sanitize_filename(title)
Sanitize ==
    /\ stage = "input"
    /\ ret' = sanitize_filename(text)
    /\ stage' = "sanitized"
    /\ UNCHANGED text

\* the file name is taken for a title and sanitized again
SanitizeAgain ==
    /\ stage = "sanitized"
    /\ text' = ret
    /\ ret' = sanitize_filename(ret)
    /\ stage' = "resanitized"

SanitizeNext ==
    \/ Sanitize /\ UNCHANGED <<mainVars, fsVars>>
    \/ SanitizeAgain /\ UNCHANGED <<mainVars, fsVars>>

SpecSanitize == SanitizeInit /\ [][SanitizeNext]_vars

FileNameChars == LowerLetters \cup Digits \cup {"-", "_"}

\* C5: sanitize_filename is idempotent, and its output consists only of the
\* characters a-z, 0-9, "-" and "_": sanitizing a sanitized name returns it
\* unchanged.
C5_SanitizeIdempotentAndSafe ==
    /\ stage \in {"sanitized", "resanitized"} =>
          \A k \in 1..Len(ret) : ret[k] \in FileNameChars
    /\ stage = "resanitized" => ret = text

\* C5 witness: a title with a slash, an upper-case letter and an unsafe
\* character has been sanitized twice
C5_Witness ==
    /\ stage = "resanitized"
    /\ ret = <<"a", "-", "_">>

-----------------------------------------------------------------------------
\* resolve_links_for_html
\*
\* The returned HTML is kept as its segments: the text between the links as
\* it stands, and one element for each link with its tag, its href ("" for
\* none) and its visible text. html is the string Python returns.

AnchorOpen == <<"<", "a", " ", "h", "r", "e", "f", "=", "\"">>

AnchorMid == <<"\"", ">">>

AnchorClose == <<"<", "/", "a", ">">>

SpanOpen ==
    <<"<", "s", "p", "a", "n", " ", "c", "l", "a", "s", "s", "=", "\"",
    "n", "o", "n", "-", "p", "u", "b", "l", "i", "c", "-", "l", "i", "n",
    "k", "\"", ">">>

SpanClose == <<"<", "/", "s", "p", "a", "n", ">">>

\* Where the match of \[\[([^\]]+)\]\] that starts at p ends; 0 for no match
LinkEnd(s, p) ==
    IF p + 4 > Len(s) \/ s[p] # "[" \/ s[p + 1] # "[" THEN 0
    ELSE LET closing == {q \in (p + 2)..Len(s) : s[q] = "]"}
             q == IF closing = {} THEN 0
                  ELSE CHOOSE c \in closing : \A d \in closing : c <= d
         IN  IF q > p + 2 /\ q < Len(s) /\ s[q + 1] = "]" THEN q + 1 ELSE 0

\* The leftmost match at or after from; 0 for none
NextLink(s, from) ==
    LET starts == {p \in from..Len(s) : LinkEnd(s, p) > 0}
    IN  IF starts = {} THEN 0 ELSE CHOOSE p \in starts : \A r \in starts : p <= r

TextSegment(t) ==
    IF t = <<>> THEN <<>> ELSE << [tag |-> "text", href |-> <<>>, text |-> t] >>

\* a repl that links every page, public or not
link_repl_always(page_name, pub) ==
    [tag |-> "a", href |-> sanitize_filename(page_name) \o DotHtml,
     text |-> page_name]

\* repl of resolve_links_for_html
link_repl(page_name, pub) ==
    IF page_name \in Keys(pub)
    THEN [tag |-> "a", href |-> sanitize_filename(page_name) \o DotHtml,
          text |-> page_name]
    ELSE [tag |-> "span", href |-> <<>>, text |-> page_name]

RECURSIVE link_sub(_, _, _)
\* re.sub(link_pattern, repl, content) from position from on
link_sub(s, from, pub) ==
    LET p == NextLink(s, from)
        e == LinkEnd(s, p)
    IN  IF p = 0 THEN TextSegment(SubSeq(s, from, Len(s)))
        ELSE TextSegment(SubSeq(s, from, p - 1))
             \o << link_repl(SubSeq(s, p + 2, e - 2), pub) >>
             \o link_sub(s, e + 1, pub)

\* the f-strings of repl
RenderSegment(seg) ==
    CASE seg.tag = "a" ->
           AnchorOpen \o seg.href \o AnchorMid \o seg.text \o AnchorClose
      [] seg.tag = "span" -> SpanOpen \o seg.text \o SpanClose
      [] OTHER -> seg.text

resolve_links_for_html(content, pub) ==
    LET segments == link_sub(content, 1, pub)
    IN  [segments |-> segments,
         html |-> Concat([k \in 1..Len(segments) |->
                             RenderSegment(segments[k])])]

LinkPieces ==
    { <<"[", "[", "A", "]", "]">>,
      <<"[", "[", "A", "/", "b", "]", "]">>,
      <<"[", "[", "c", "]", "]">>,
      <<"[">>,
      <<"]">>,
      <<"[", "[">>,
      <<"]", "]">>,
      <<"s", "e", "e", " ">>,
      <<"A">> }

Texts(pieces) ==
    {Concat(ps) : ps \in SeqsUpTo(pieces, MaxPieces)}

Entry(title) == [uuid |-> 1, title |-> title, has_public_children |-> FALSE]

LinkPublicSets ==
    { <<>>, << Entry(<<"A">>) >>,
      << Entry(<<"A">>), Entry(<<"A", "/", "b">>) >> }

LinksInit ==
    /\ text \in Texts(LinkPieces)
    /\ public_pages \in LinkPublicSets
    /\ ret = None
    /\ stage = "input"
    /\ IdleMain /\ IdleFs

\* line = resolve_links_for_html(line, public_pages)
ResolveLinks ==
    /\ stage = "input"
    /\ ret' = resolve_links_for_html(text, public_pages)
    /\ stage' = "resolved"
    /\ UNCHANGED <<text, public_pages>>

LinksNext == ResolveLinks /\ UNCHANGED <<pages, pc, api, idx, written, fsVars>>

SpecLinks == LinksInit /\ [][LinksNext]_vars

HasLink(s) == \E p \in 1..Len(s) : LinkEnd(s, p) > 0

Elements(segments) ==
    {k \in 1..Len(segments) : segments[k].tag # "text"}

\* The text a segment stands for: a link is written back with its brackets
SourceOf(seg) ==
    IF seg.tag = "text" THEN seg.text ELSE <<"[", "[">> \o seg.text \o <<"]", "]">>

SourceText(segments) ==
    Concat([k \in 1..Len(segments) |-> SourceOf(segments[k])])

\* C4: resolve_links_for_html rewrites every [[PageName]] of the text: a
\* name that is a key of the PublicPageSet becomes an anchor whose href is
\* sanitize_filename(PageName) + ".html", any other name an inert span with
\* no href; the visible text is exactly PageName, and the text outside the
\* double brackets is unchanged and holds no [[PageName]] any more.
C4_LinksResolved ==
    stage = "resolved" =>
        /\ \A k \in Elements(ret.segments) :
              LET seg == ret.segments[k]
              IN  /\ seg.text # <<>>
                  /\ seg.text \in Keys(public_pages) =>
                        /\ seg.tag = "a"
                        /\ seg.href = sanitize_filename(seg.text) \o DotHtml
                  /\ seg.text \notin Keys(public_pages) =>
                        /\ seg.tag = "span"
                        /\ seg.href = <<>>
        /\ SourceText(ret.segments) = text
        /\ \A k \in 1..Len(ret.segments) :
              ret.segments[k].tag = "text" => ~HasLink(ret.segments[k].text)

\* C4 witness: "see [[A]][[c]]" with A public: an anchor, then an inert span
C4_Witness ==
    /\ stage = "resolved"
    /\ Len(ret.segments) = 3
    /\ ret.segments[1].tag = "text"
    /\ ret.segments[2] = [tag |-> "a", href |-> <<"a", ".", "h", "t", "m", "l">>, text |-> <<"A">>]
    /\ ret.segments[3] = [tag |-> "span", href |-> <<>>, text |-> <<"c">>]

-----------------------------------------------------------------------------
\* Regular expressions on character sequences

Min(S) == CHOOSE m \in S : \A k \in S : m <= k

Max(S) == CHOOSE m \in S : \A k \in S : m >= k

\* The number of characters of S in a row from position p on (a greedy X*)
RunLen(s, p, S) ==
    LET stops == {k \in p..Len(s) : s[k] \notin S}
    IN  IF p > Len(s) THEN 0
        ELSE IF stops = {} THEN Len(s) - p + 1
        ELSE Min(stops) - p

\* Whether the literal lit stands at position p
HasAt(s, p, lit) ==
    p >= 1 /\ p + Len(lit) - 1 <= Len(s) /\ SubSeq(s, p, p + Len(lit) - 1) = lit

SpaceChars == {" ", "\t", "\n", "\r"}

\* str.split('\n')
RECURSIVE Split(_)
Split(s) ==
    LET nl == {k \in 1..Len(s) : s[k] = "\n"}
    IN  IF nl = {} THEN <<s>>
        ELSE <<SubSeq(s, 1, Min(nl) - 1)>> \o Split(SubSeq(s, Min(nl) + 1, Len(s)))

\* '\n'.join(lines)
RECURSIVE Join(_)
Join(lines) ==
    IF lines = <<>> THEN <<>>
    ELSE IF Len(lines) = 1 THEN lines[1]
    ELSE lines[1] \o <<"\n">> \o Join(Tail(lines))

-----------------------------------------------------------------------------
\* clean_logseq_metadata

IdMarker == <<"i", "d", ":", ":">>

PublicMarker == <<"p", "u", "b", "l", "i", "c", ":", ":">>

WordTrue == <<"t", "r", "u", "e">>

WordChildren == <<"c", "h", "i", "l", "d", "r", "e", "n">>

\* Where the match of \s*id::\s*[a-f0-9-]+ that starts at p ends; 0 for none
IdEnd(s, p) ==
    LET m == p + RunLen(s, p, SpaceChars)
        v == m + 4 + RunLen(s, m + 4, SpaceChars)
        n == RunLen(s, v, HexChars \cup {"-"})
    IN  IF HasAt(s, m, IdMarker) /\ n > 0 THEN v + n - 1 ELSE 0

\* a-f0-9 eight times, then three groups of four and one of twelve
IsUuidAt(s, u) ==
    /\ u + 35 <= Len(s)
    /\ \A k \in 0..35 :
          IF k \in {8, 13, 18, 23} THEN s[u + k] = "-"
          ELSE s[u + k] \in HexChars

\* Where the match of \s*<uuid> that starts at p ends; 0 for none
UuidEnd(s, p) ==
    LET u == p + RunLen(s, p, SpaceChars)
    IN  IF IsUuidAt(s, u) THEN u + 35 ELSE 0

\* Where the match of \s*public::\s*(true|children) starting at p ends
PublicEnd(s, p) ==
    LET m == p + RunLen(s, p, SpaceChars)
        v == m + 8 + RunLen(s, m + 8, SpaceChars)
    IN  IF ~HasAt(s, m, PublicMarker) THEN 0
        ELSE IF HasAt(s, v, WordTrue) THEN v + 3
        ELSE IF HasAt(s, v, WordChildren) THEN v + 7
        ELSE 0

\* Where the match of \(\(([a-f0-9-]+)\)\) that starts at p ends; 0 for none
BlockRefEnd(s, p) ==
    LET n == RunLen(s, p + 2, HexChars \cup {"-"})
    IN  IF HasAt(s, p, <<"(", "(">>) /\ n > 0
           /\ HasAt(s, p + 2 + n, <<")", ")">>)
        THEN p + n + 3 ELSE 0

\* Where the match of the named pattern that starts at p ends; 0 for none
MatchEnd(pattern, s, p) ==
    CASE pattern = "id" -> IdEnd(s, p)
      [] pattern = "uuid" -> UuidEnd(s, p)
      [] pattern = "public" -> PublicEnd(s, p)
      [] pattern = "blockref" -> BlockRefEnd(s, p)

\* The leftmost position at or after from where the pattern matches; 0 for none
NextMatch(pattern, s, from) ==
    LET starts == {p \in from..Len(s) : MatchEnd(pattern, s, p) > 0}
    IN  IF starts = {} THEN 0 ELSE Min(starts)

RECURSIVE Delete(_, _, _)
\* re.sub(pattern, '', s) from position from on
Delete(pattern, s, from) ==
    LET p == NextMatch(pattern, s, from)
    IN  IF p = 0 THEN SubSeq(s, from, Len(s))
        ELSE SubSeq(s, from, p - 1)
             \o Delete(pattern, s, MatchEnd(pattern, s, p) + 1)

clean_logseq_metadata(content) ==
    LET no_ids == Delete("id", content, 1)
        no_uuids == Delete("uuid", no_ids, 1)
    IN  Delete("public", no_uuids, 1)

SpacedUuid ==
    <<" ", "0", "a", "1", "b", "2", "c", "3", "d", "-", "0", "0", "0", "0",
    "-", "4", "f", "f", "f", "-", "8", "a", "b", "c", "-", "0", "1", "2",
    "3", "4", "5", "6", "7", "8", "9", "a", "b">>

CleanPieces ==
    { <<"i", "d">>,
      <<"i", "d", ":", ":", " ", "a", "b">>,
      <<":", ":", " ", "a", "b">>,
      <<"p", "u", "b", "l", "i", "c", ":", ":", " ", "t", "r", "u", "e">>,
      <<"i">>,
      <<"d", ":", ":", " ", "4", "c">>,
      <<"h", "e", "l", "l", "o">>,
      <<" ">>,
      <<"\n">>,
      <<"x">>,
      SpacedUuid }

CleanInit ==
    /\ text \in Texts(CleanPieces)
    /\ ret = None
    /\ stage = "input"
    /\ IdleMain /\ IdlePublic /\ IdleFs

\* content = clean_logseq_metadata(content)
Clean ==
    /\ stage = "input"
    /\ ret' = clean_logseq_metadata(text)
    /\ stage' = "cleaned"
    /\ UNCHANGED text

CleanNext == Clean /\ UNCHANGED <<mainVars, fsVars>>

SpecClean == CleanInit /\ [][CleanNext]_vars

HasMetadata(s) ==
    \E p \in 1..Len(s) :
        IdEnd(s, p) > 0 \/ UuidEnd(s, p) > 0 \/ PublicEnd(s, p) > 0

\* C8 (as claimed): the text clean_logseq_metadata returns holds no identifier
\* annotation, no bare UUID and no visibility annotation any more, whatever
\* the input.
C8_NoMetadataLeft == stage = "cleaned" => ~HasMetadata(ret)

-----------------------------------------------------------------------------
\* format_properties

Letters == LowerLetters \cup UpperLetters

\* [a-zA-Z0-9-_]
KeyChars == Letters \cup Digits \cup {"-", "_"}

ReservedKeys == { <<"i", "d">>, <<"p", "u", "b", "l", "i", "c">> }

\* The length of the key that ^([a-zA-Z][a-zA-Z0-9-_]*)::(.+?)$ finds in the
\* stripped line s; 0 when the line is no property line
PropertyKeyLen(s) ==
    LET r == RunLen(s, 1, KeyChars)
    IN  IF s # <<>> /\ s[1] \in Letters /\ HasAt(s, r + 1, <<":", ":">>)
           /\ Len(s) >= r + 3
        THEN r ELSE 0

\* re.match(property_pattern, line.strip())
IsPropertyLine(line) == PropertyKeyLen(Strip(line)) > 0

\* match.groups(), stripped
PropertyPair(line) ==
    LET s == Strip(line)
        r == PropertyKeyLen(s)
    IN  [key |-> Strip(SubSeq(s, 1, r)), value |-> Strip(SubSeq(s, r + 3, Len(s)))]

\* The characters hash() reads, each with its number
CodeTable ==
    <<"a", "b", "c", "d", "e", "f", "g", "h", "i", "j", "k", "l", "m", "n",
    "o", "p", "q", "r", "s", "t", "u", "v", "w", "x", "y", "z", "A", "B",
    "C", "D", "E", "F", "G", "H", "I", "J", "K", "L", "M", "N", "O", "P",
    "Q", "R", "S", "T", "U", "V", "W", "X", "Y", "Z", "0", "1", "2", "3",
    "4", "5", "6", "7", "8", "9", " ", ":", "-", "_", "<", ">", "/", ".",
    "[", "]", "(", ")", "#", "\n", "\t", "\"", "=">>

CharCode(c) == CHOOSE k \in 1..Len(CodeTable) : CodeTable[k] = c

HashBase == 131

HashModulus == 8388608

RECURSIVE HashFrom(_, _)
HashFrom(s, h) ==
    IF s = <<>> THEN h
    ELSE HashFrom(Tail(s), (h * HashBase + CharCode(Head(s))) % HashModulus)

\* hash(s) & 0xFFFFFFFF: Python salts its string hash anew for every run; the
\* model takes one fixed function of the characters for it
MaskedHash(s) == HashFrom(s, 7)

DigitSeq == <<"0", "1", "2", "3", "4", "5", "6", "7", "8", "9">>

RECURSIVE Decimal(_)
\* str(n) for n >= 0
Decimal(n) ==
    IF n < 10 THEN <<DigitSeq[n + 1]>>
    ELSE Decimal(n \div 10) \o <<DigitSeq[(n % 10) + 1]>>

SectionOpen ==
    <<"<", "s", "e", "c", "t", "i", "o", "n", " ", "i", "d", "=", "\"">>

PropsPrefix ==
    <<"p", "r", "o", "p", "s", "-">>

PropPrefix ==
    <<"p", "r", "o", "p", "-">>

SectionAttrs ==
    <<"\"", " ", "c", "l", "a", "s", "s", "=", "\"", "p", "a", "g", "e",
    "-", "p", "r", "o", "p", "e", "r", "t", "i", "e", "s", "\"", " ", "a",
    "r", "i", "a", "-", "l", "a", "b", "e", "l", "=", "\"", "P", "a", "g",
    "e", " ", "p", "r", "o", "p", "e", "r", "t", "i", "e", "s", "\"", ">",
    "\n">>

HiddenHeading ==
    <<"<", "h", "2", " ", "c", "l", "a", "s", "s", "=", "\"", "v", "i",
    "s", "u", "a", "l", "l", "y", "-", "h", "i", "d", "d", "e", "n", "\"",
    ">", "P", "a", "g", "e", " ", "P", "r", "o", "p", "e", "r", "t", "i",
    "e", "s", "<", "/", "h", "2", ">", "\n">>

ListOpen ==
    <<"<", "d", "l", " ", "r", "o", "l", "e", "=", "\"", "l", "i", "s",
    "t", "\"", ">", "\n">>

PairOpen ==
    <<" ", " ", " ", " ", "<", "d", "i", "v", " ", "c", "l", "a", "s", "s",
    "=", "\"", "p", "r", "o", "p", "e", "r", "t", "y", "-", "p", "a", "i",
    "r", "\"", " ", "r", "o", "l", "e", "=", "\"", "l", "i", "s", "t", "i",
    "t", "e", "m", "\"", ">", "\n">>

TermOpen ==
    <<" ", " ", " ", " ", "<", "d", "t", " ", "i", "d", "=", "\"">>

TermClose ==
    <<"<", "/", "d", "t", ">", "\n">>

DescOpen ==
    <<" ", " ", " ", " ", "<", "d", "d", " ", "a", "r", "i", "a", "-", "l",
    "a", "b", "e", "l", "l", "e", "d", "b", "y", "=", "\"">>

DescClose ==
    <<"<", "/", "d", "d", ">", "\n">>

PairClose ==
    <<" ", " ", " ", " ", "<", "/", "d", "i", "v", ">", "\n">>

ListClose ==
    <<"<", "/", "d", "l", ">", "\n">>

SectionClose ==
    <<"<", "/", "s", "e", "c", "t", "i", "o", "n", ">", "\n">>

ParaOpen ==
    <<"<", "p", ">">>

ParaClose ==
    <<"<", "/", "p", ">">>

\* An identifier before it is formatted: its prefix and the string that is
\* hashed
key_id(pair) == [prefix |-> PropPrefix, hashed |-> pair.key]

\* line 797: the keys and values of the run, concatenated, are hashed
section_id(property_lines) ==
    [prefix |-> PropsPrefix,
     hashed |-> Concat([k \in 1..Len(property_lines) |->
                   property_lines[k].key \o property_lines[k].value])]

\* f'props-{hash(...) & 0xFFFFFFFF}' and f'prop-{hash(...) & 0xFFFFFFFF}'
IdText(id) == id.prefix \o Decimal(MaskedHash(id.hashed))

\* The four lines of one key/value pair (lines 803-807, 826-830)
PairHtml(pair) ==
    PairOpen
    \o TermOpen \o IdText(key_id(pair)) \o AnchorMid \o pair.key \o TermClose
    \o DescOpen \o IdText(key_id(pair)) \o AnchorMid \o pair.value
    \o DescClose
    \o PairClose

\* dl_html for the pairs of one run (lines 797-809, 821-832)
PropertiesHtml(property_lines) ==
    SectionOpen \o IdText(section_id(property_lines)) \o SectionAttrs
        \o HiddenHeading
        \o ListOpen
        \o Concat([k \in 1..Len(property_lines) |-> PairHtml(property_lines[k])])
        \o ListClose
        \o SectionClose

\* What format_properties appends to lines: the container of a run of
\* properties, or one line of text
Container(property_lines) ==
    [kind |-> "properties", pairs |-> property_lines, line |-> <<>>]

TextLine(line) == [kind |-> "line", pairs |-> <<>>, line |-> line]

\* lines 813-817: a non-empty line, in <p> unless it starts with "<"
LineEntries(line) ==
    IF Strip(line) = <<>> THEN <<>>
    ELSE IF StartsWith(Strip(line), <<"<">>) THEN <<TextLine(line)>>
    ELSE <<TextLine(ParaOpen \o line \o ParaClose)>>

\* a flush that emits a container for every run, an empty one too
FlushAlways(property_lines) == <<Container(property_lines)>>

IsReserved(key) == key \in ReservedKeys

\* lines 795-811 and 820-833: the pending properties become one container
Flush(property_lines) ==
    IF property_lines = <<>> THEN <<>> ELSE <<Container(property_lines)>>

RECURSIVE format_loop(_, _, _, _)
\* the loop of format_properties from line k on, and the flush after it
format_loop(src, k, lines, property_lines) ==
    IF k > Len(src) THEN lines \o Flush(property_lines)
    ELSE IF IsPropertyLine(src[k])
    THEN format_loop(src, k + 1, lines,
             IF IsReserved(PropertyPair(src[k]).key) THEN property_lines
             ELSE Append(property_lines, PropertyPair(src[k])))
    ELSE format_loop(src, k + 1,
             lines \o Flush(property_lines) \o LineEntries(src[k]), <<>>)

EntryHtml(entry) ==
    IF entry.kind = "properties" THEN PropertiesHtml(entry.pairs) ELSE entry.line

format_properties(content) ==
    LET entries == format_loop(Split(content), 1, <<>>, <<>>)
    IN  [entries |-> entries,
         html |-> Join([k \in 1..Len(entries) |-> EntryHtml(entries[k])])]

PropertyLines ==
    { <<"a", ":", ":", " ", "1">>,
      <<"b", ":", ":", " ", "2">>,
      <<"i", "d", ":", ":", " ", "4", "c">>,
      <<"p", "u", "b", "l", "i", "c", ":", ":", " ", "t", "r", "u", "e">>,
      <<"S", "o", "m", "e", " ", "t", "e", "x", "t">>,
      <<>>,
      <<" ", "k", ":", ":", "v", " ">>,
      <<"<", "b", ">", "x">>,
      <<"a", ":", ":">>,
      <<"a", "1", ":", ":", " ", "b">>,
      <<"a", ":", ":", " ", "1", "b">> }

PropertiesInit ==
    /\ text \in {Join(ls) : ls \in SeqsUpTo(PropertyLines, MaxLines) \ {<<>>}}
    /\ ret = None
    /\ stage = "input"
    /\ IdleMain /\ IdlePublic /\ IdleFs

\* content = format_properties(content)
FormatProperties ==
    /\ stage = "input"
    /\ ret' = format_properties(text)
    /\ stage' = "formatted"
    /\ UNCHANGED text

PropertiesNext == FormatProperties /\ UNCHANGED <<mainVars, fsVars>>

SpecProperties == PropertiesInit /\ [][PropertiesNext]_vars

\* The maximal runs of consecutive property lines, by their first line
RunStarts(src) ==
    {a \in 1..Len(src) :
        IsPropertyLine(src[a]) /\ (a = 1 \/ ~IsPropertyLine(src[a - 1]))}

RunLast(src, a) ==
    Max({b \in a..Len(src) : \A j \in a..b : IsPropertyLine(src[j])})

\* The pairs of the run that starts at a, in input order, id and public left out
RunPairs(src, a) ==
    LET all == [j \in 1..(RunLast(src, a) - a + 1) |-> PropertyPair(src[a + j - 1])]
    IN  SelectSeq(all, LAMBDA pr : pr.key \notin ReservedKeys)

TextLines(src) ==
    {j \in 1..Len(src) : ~IsPropertyLine(src[j]) /\ Strip(src[j]) # <<>>}

RECURSIVE Ascending(_)
Ascending(S) == IF S = {} THEN <<>> ELSE <<Min(S)>> \o Ascending(S \ {Min(S)})

\* What the claim expects for the line at position j: a run's container, or
\* the line as its own paragraph (as it stands when it starts with "<")
ExpectedAt(src, j) ==
    IF IsPropertyLine(src[j]) THEN Container(RunPairs(src, j))
    ELSE IF StartsWith(Strip(src[j]), <<"<">>) THEN TextLine(src[j])
    ELSE TextLine(ParaOpen \o src[j] \o ParaClose)

Expected(src, runs) ==
    LET at == Ascending(runs \cup TextLines(src))
    IN  [k \in 1..Len(at) |-> ExpectedAt(src, at[k])]

\* C6 (as claimed): format_properties emits exactly one container for each
\* maximal run of consecutive property lines, holding the pairs of the run in
\* input order without the keys id and public, and each other non-empty line
\* after it as its own paragraph.
C6_OneContainerPerRun ==
    stage = "formatted" =>
        ret.entries = Expected(Split(text), RunStarts(Split(text)))

\* C6 (amended): the same, for the maximal runs that hold at least one pair
\* whose key is neither id nor public; a run of id and public lines alone
\* emits nothing.
C6_OneContainerPerNonReservedRun ==
    stage = "formatted" =>
        ret.entries =
            Expected(Split(text),
                     {a \in RunStarts(Split(text)) :
                         RunPairs(Split(text), a) # <<>>})

\* C6 witness: "a:: 1\nb:: 2\nSome text" gives one container with a->1, b->2
\* and then the paragraph
C6_Witness ==
    /\ stage = "formatted"
    /\ text = <<"a", ":", ":", " ", "1", "\n", "b", ":", ":", " ", "2", "\n", "S", "o", "m", "e", " ", "t", "e", "x", "t">>
    /\ ret.entries =
          << Container(<< [key |-> <<"a">>, value |-> <<"1">>],
                          [key |-> <<"b">>, value |-> <<"2">>] >>),
             TextLine(<<"<", "p", ">", "S", "o", "m", "e", " ", "t", "e", "x", "t", "<", "/", "p", ">">>) >>

-----------------------------------------------------------------------------
\* preprocess_markdown

\* Where the match of #\[\[([^\]]+)\]\] that starts at p ends; 0 for none
TagEnd(s, p) ==
    IF p < Len(s) /\ s[p] = "#" THEN LinkEnd(s, p + 1) ELSE 0

NextTag(s, from) ==
    LET starts == {p \in from..Len(s) : TagEnd(s, p) > 0}
    IN  IF starts = {} THEN 0 ELSE Min(starts)

RECURSIVE tag_sub(_, _)
\* re.sub(r'#\[\[([^\]]+)\]\]', r'[\1](\1)', content) from position from on
tag_sub(s, from) ==
    LET p == NextTag(s, from)
        e == TagEnd(s, p)
        name == SubSeq(s, p + 3, e - 2)
    IN  IF p = 0 THEN SubSeq(s, from, Len(s))
        ELSE SubSeq(s, from, p - 1)
             \o <<"[">> \o name \o <<"]", "(">> \o name \o <<")">>
             \o tag_sub(s, e + 1)

\* re.sub('^' + marker, box, content, flags=re.MULTILINE): ^ is the start of
\* the text and the place after each "\n"
task_sub(s, marker, box) ==
    LET ls == Split(s)
    IN  Join([k \in 1..Len(ls) |->
                 IF StartsWith(ls[k], marker)
                 THEN box \o SubSeq(ls[k], Len(marker) + 1, Len(ls[k]))
                 ELSE ls[k]])

Checked == <<"-", " ", "[", "x", "]", " ">>

Unchecked == <<"-", " ", "[", " ", "]", " ">>

task_markers(s) ==
    LET done == task_sub(s, <<"D", "O", "N", "E", " ">>, Checked)
        doing == task_sub(done, <<"D", "O", "I", "N", "G", " ">>, Unchecked)
        todo == task_sub(doing, <<"T", "O", "D", "O", " ">>, Unchecked)
        now == task_sub(todo, <<"N", "O", "W", " ">>, Unchecked)
    IN  task_sub(now, <<"L", "A", "T", "E", "R", " ">>, Unchecked)

preprocess_markdown(content) ==
    IF content = <<>> THEN <<>>
    ELSE LET tagged == tag_sub(content, 1)
             unreferenced == Delete("blockref", tagged, 1)
             tasks == task_markers(unreferenced)
             formatted == format_properties(tasks).html
         IN  clean_logseq_metadata(formatted)

MarkdownPieces ==
    { <<"a", ":", ":", " ", "1">>,
      <<"\n">>,
      <<"S", "o", "m", "e", " ", "t", "e", "x", "t">>,
      <<"#", "[", "[", "t", "]", "]">>,
      <<"(", "(", "4", "c", ")", ")">>,
      <<"(", "(">>,
      <<")", ")">>,
      <<"D", "O", "N", "E", " ">>,
      <<"i", "d", ":", ":", " ", "4", "c">>,
      <<"<", "b", ">">> }

PreprocessInit ==
    /\ text \in Texts(MarkdownPieces)
    /\ ret = None
    /\ stage = "input"
    /\ IdleMain /\ IdlePublic /\ IdleFs

\* content = preprocess_markdown(content)
Preprocess ==
    /\ stage = "input"
    /\ ret' = preprocess_markdown(text)
    /\ stage' = "normalized"
    /\ UNCHANGED text

\* the normalized text is normalized again
PreprocessAgain ==
    /\ stage = "normalized"
    /\ text' = ret
    /\ ret' = preprocess_markdown(ret)
    /\ stage' = "renormalized"

PreprocessNext ==
    \/ Preprocess /\ UNCHANGED <<mainVars, fsVars>>
    \/ PreprocessAgain /\ UNCHANGED <<mainVars, fsVars>>

SpecPreprocess == PreprocessInit /\ [][PreprocessNext]_vars

\* C7 (as claimed): preprocess_markdown is idempotent: applied to its own
\* output it returns that output unchanged.
C7_PreprocessIdempotent == stage = "renormalized" => ret = text

-----------------------------------------------------------------------------
\* find_asset
\*
\* dirs[k] is the k-th of possible_locations: whether the directory exists,
\* and the names of the files in it. A path is a location and a name in it
\* (the empty name: the directory itself); location 0 is None.

NumLocations == 5

NoAsset == [loc |-> 0, name |-> <<>>]

RECURSIVE Replace(_, _, _)
\* str.replace(old, new)
Replace(s, old, new) ==
    LET at == {p \in 1..Len(s) : HasAt(s, p, old)}
    IN  IF at = {} THEN s
        ELSE SubSeq(s, 1, Min(at) - 1) \o new
             \o Replace(SubSeq(s, Min(at) + Len(old), Len(s)), old, new)

RECURSIVE Dedup(_)
\* list(dict.fromkeys(names)): the first of each, in order
Dedup(names) ==
    IF names = <<>> THEN <<>>
    ELSE <<Head(names)>>
         \o Dedup(SelectSeq(Tail(names), LAMBDA n : n # Head(names)))

\* lines 483-491, and 511-517 for the name without its extension
variations(filename) ==
    Dedup(<< filename,
             Replace(filename, <<"_", "-", "_">>, <<"-">>),
             Replace(filename, <<"-">>, <<"_">>),
             Replace(filename, <<"_">>, <<"-">>) >>)

\* os.path.basename
Basename(path) ==
    LET slashes == {k \in 1..Len(path) : path[k] = "/"}
    IN  IF slashes = {} THEN path ELSE SubSeq(path, Max(slashes) + 1, Len(path))

\* Where os.path.splitext cuts: the last dot, unless only dots precede it
ExtensionStart(name) ==
    LET dots == {k \in 1..Len(name) : name[k] = "."}
    IN  IF dots # {} /\ (\E j \in 1..(Max(dots) - 1) : name[j] # ".")
        THEN Max(dots) ELSE Len(name) + 1

\* os.path.splitext(name)[0]
Stem(name) == SubSeq(name, 1, ExtensionStart(name) - 1)

\* os.path.splitext(name)[1]
Extension(name) == SubSeq(name, ExtensionStart(name), Len(name))

\* needle in hay
Contains(hay, needle) ==
    \E p \in 1..(Len(hay) - Len(needle) + 1) : HasAt(hay, p, needle)

\* base_variations that forget the "-" to "_" spelling
base_variations_nounderscore(filename) ==
    LET basename_no_ext == Stem(Basename(filename))
    IN  Dedup(<< basename_no_ext,
                 Replace(basename_no_ext, <<"_", "-", "_">>, <<"-">>),
                 Replace(basename_no_ext, <<"_">>, <<"-">>) >>)

\* lines 510-517
base_variations(filename) == variations(Stem(Basename(filename)))

\* The files outside the candidate directories: one with an absolute path,
\* and one that stands in the parent of every candidate directory
AbsoluteFiles == { <<"/", "e">> }

ParentFiles == { <<"s", ".", "p", "n", "g">> }

ParentPrefix == <<".", ".", "/">>

\* os.path.exists(os.path.join(location, variant)): the empty name joins to
\* the directory itself, an absolute name replaces the location, and a name
\* that starts with "../" leaves the directory; the candidate directories
\* hold no directories
PathExists(fs, fold, loc, variant) ==
    \/ variant = <<>>
    \/ variant \in AbsoluteFiles
    \/ StartsWith(variant, ParentPrefix)
       /\ Tail_(variant, Len(ParentPrefix) + 1) \in ParentFiles
    \/ \E g \in fs[loc].entries :
          g = variant \/ (fold /\ Lower(g) = Lower(variant))

\* lines 519-522: whether the partial matching accepts the file
PartialMatch(filename, file) ==
    LET bvs == base_variations(filename)
    IN  \E k \in 1..Len(bvs) : Contains(Lower(file), Lower(bvs[k]))

\* a find_in_location that tries the partial matching first
find_in_location_partial_first(fs, fold, order, filename, loc) ==
    LET vs == variations(filename)
        exact == {k \in 1..Len(vs) : PathExists(fs, fold, loc, vs[k])}
        partial == {g \in fs[loc].entries : PartialMatch(filename, g)}
    IN  IF partial # {}
        THEN [loc |-> loc,
              name |-> CHOOSE g \in partial :
                           \A h \in partial : order[g] <= order[h]]
        ELSE IF exact # {} THEN [loc |-> loc, name |-> vs[Min(exact)]]
        ELSE NoAsset

\* lines 502-525 in one directory; order ranks the files as os.listdir
\* happens to list them
find_in_location(fs, fold, order, filename, loc) ==
    LET vs == variations(filename)
        exact == {k \in 1..Len(vs) : PathExists(fs, fold, loc, vs[k])}
        partial == {g \in fs[loc].entries : PartialMatch(filename, g)}
    IN  IF exact # {} THEN [loc |-> loc, name |-> vs[Min(exact)]]
        ELSE IF partial # {}
        THEN [loc |-> loc,
              name |-> CHOOSE g \in partial :
                           \A h \in partial : order[g] <= order[h]]
        ELSE NoAsset

RECURSIVE find_from(_, _, _, _, _)
\* the loop over possible_locations from loc on (lines 497-528)
find_from(fs, fold, order, filename, loc) ==
    IF loc > NumLocations THEN NoAsset
    ELSE LET here == IF fs[loc].exists
                     THEN find_in_location(fs, fold, order, filename, loc)
                     ELSE NoAsset
         IN  IF here # NoAsset THEN here
             ELSE find_from(fs, fold, order, filename, loc + 1)

find_asset(fs, fold, order, filename) == find_from(fs, fold, order, filename, 1)

FileUniverse ==
    { <<"m", "_", "p", ".", "j", "p", "g">>,
      <<"m", "_", "p", ".", "J", "P", "G">>,
      <<"m", "_", "p", "2", ".", "t", "x", "t">>,
      <<"z", ".", "p", "n", "g">> }

\* The ranks of a listing by os.listdir that puts one file first; which of
\* the matching files is listed first is all that find_asset reads of the
\* order
ListedFirst(first) == [g \in FileUniverse |-> IF g = first THEN 0 ELSE 1]

Directories ==
    {[exists |-> FALSE, entries |-> {}]}
    \cup {[exists |-> TRUE, entries |-> fs] :
             fs \in {x \in SUBSET FileUniverse : Cardinality(x) <= MaxFiles}}

\* The candidate directories: the first MaxDirs of them may exist
FileSystems ==
    {[k \in 1..NumLocations |->
         IF k <= MaxDirs THEN first[k] ELSE [exists |-> FALSE, entries |-> {}]] :
     first \in [1..MaxDirs -> Directories]}

AssetNames ==
    { <<"m", "-", "p", ".", "J", "P", "G">>,
      <<"z", ".", "p", "n", "g">>,
      <<"q", ".", "p", "n", "g">>,
      <<>> }

\* A case-insensitive file system holds no two names that differ by case
Consistent(fs, fold) ==
    fold => \A k \in 1..NumLocations : \A g, h \in fs[k].entries :
                Lower(g) = Lower(h) => g = h

AssetInit ==
    /\ dirs \in FileSystems
    /\ caseInsensitive \in BOOLEAN
    /\ Consistent(dirs, caseInsensitive)
    /\ text \in AssetNames
    /\ ret = None
    /\ stage = "input"
    /\ IdleMain /\ IdlePublic

\* asset_path = find_asset(img_path)
FindAsset ==
    /\ stage = "input"
    /\ \E first \in FileUniverse :
          ret' = find_asset(dirs, caseInsensitive, ListedFirst(first), text)
    /\ stage' = "found"
    /\ UNCHANGED <<text, dirs, caseInsensitive>>

AssetNext == FindAsset /\ UNCHANGED mainVars

SpecAsset == AssetInit /\ [][AssetNext]_vars


\* The spellings of a name under the "-" / "_" / "_-_" substitutions
Spellings(name) ==
    { name,
      Replace(name, <<"_", "-", "_">>, <<"-">>),
      Replace(name, <<"-">>, <<"_">>),
      Replace(name, <<"_">>, <<"-">>) }

\* The file differs from the reference only by spelling substitutions and by
\* the letter case of the extension
Related(reference, file) ==
    /\ Stem(file) \in Spellings(Stem(reference))
    /\ Lower(Extension(file)) = Lower(Extension(reference))

\* The files of the existing candidate directories, as <<location, name>>
Present ==
    {lf \in (1..NumLocations) \X FileUniverse :
        dirs[lf[1]].exists /\ lf[2] \in dirs[lf[1]].entries}

RelatedFiles == {lf \in Present : Related(text, lf[2])}

\* The returned path names the file on this file system
Denotes(path, lf) ==
    /\ path.loc = lf[1]
    /\ \/ path.name = lf[2]
       \/ caseInsensitive /\ Lower(path.name) = Lower(lf[2])

\* The file is one find_asset accepts for the reference: its name is a
\* spelling of the reference, or contains a spelling of the reference's
\* extension-less basename, case ignored
Resembles(reference, file) ==
    \/ \E v \in Spellings(reference) :
          file = v \/ (caseInsensitive /\ Lower(file) = Lower(v))
    \/ \E v \in Spellings(Stem(Basename(reference))) :
          Contains(Lower(file), Lower(v))

\* No other file of the same or an earlier candidate directory resembles the
\* reference
OnlyCandidate(lf) ==
    \A other \in Present :
        (other # lf /\ other[1] <= lf[1]) => ~Resembles(text, other[2])

\* C9 (as claimed): for a reference that differs from a file present in a
\* candidate directory only by '-' / '_' / '_-_' spelling and by the case of
\* the extension, find_asset succeeds and returns such a file.
C9_ReturnsThatFile ==
    (stage = "found" /\ RelatedFiles # {})
        => \E lf \in RelatedFiles : Denotes(ret, lf)

\* C9 (amended): for such a reference find_asset succeeds, and what it returns
\* is a file of a candidate directory that resembles the reference (by exact
\* spelling variant, or by containing a variant of the extension-less
\* basename); it is the file the reference differs from by spelling whenever
\* no other file of that directory or an earlier one resembles the reference.
C9_ResolvesToResemblingFile ==
    (stage = "found" /\ RelatedFiles # {})
        => /\ ret # NoAsset
           /\ \E lf \in Present : Denotes(ret, lf) /\ Resembles(text, lf[2])
           /\ \A lf \in RelatedFiles : OnlyCandidate(lf) => Denotes(ret, lf)

\* my-photo.JPG against my_photo.jpg on a case-sensitive file system, found
\* by the substring stage
C9_Witness ==
    /\ stage = "found"
    /\ ~caseInsensitive
    /\ text = <<"m", "-", "p", ".", "J", "P", "G">>
    /\ dirs[1].exists
    /\ dirs[1].entries = {<<"m", "_", "p", ".", "j", "p", "g">>}
    /\ ret = [loc |-> 1, name |-> <<"m", "_", "p", ".", "j", "p", "g">>]

-----------------------------------------------------------------------------
\* process_image_links and copy_asset
\*
\* A result is the text a call returns, or the fact that it raised.

Returns(html) == [raised |-> FALSE, html |-> html]

Raises == [raised |-> TRUE, html |-> <<>>]

\* The first position from `from` on that holds the character, or 0
Find(s, from, c) ==
    LET at == {k \in from..Len(s) : s[k] = c}
    IN  IF at = {} THEN 0 ELSE Min(at)

\* The escapes urllib.parse.unquote decodes, as far as the references use them
Escapes ==
    (<<"2", "0">> :> " ") @@ (<<"2", "E">> :> ".") @@ (<<"2", "F">> :> "/")

RECURSIVE unquote(_)
\* urllib.parse.unquote
unquote(s) ==
    IF s = <<>> THEN <<>>
    ELSE IF Len(s) >= 3 /\ s[1] = "%" /\ <<s[2], s[3]>> \in DOMAIN Escapes
    THEN <<Escapes[<<s[2], s[3]>>]>> \o unquote(Tail_(s, 4))
    ELSE <<Head(s)>> \o unquote(Tail(s))

RECURSIVE strip_parents(_)
\* re.sub(r'\.\./+', '', img_path)
strip_parents(s) ==
    IF s = <<>> THEN <<>>
    ELSE IF HasAt(s, 1, <<".", ".", "/">>)
    THEN strip_parents(Tail_(s, 3 + RunLen(s, 3, {"/"})))
    ELSE <<Head(s)>> \o strip_parents(Tail(s))

AssetsPrefix == <<"a", "s", "s", "e", "t", "s", "/">>

ImgPrefix == <<"i", "m", "g", "/">>

\* re.sub(r'^(assets/|img/)', '', img_path)
strip_prefix(s) ==
    IF StartsWith(s, AssetsPrefix) THEN Tail_(s, Len(AssetsPrefix) + 1)
    ELSE IF StartsWith(s, ImgPrefix) THEN Tail_(s, Len(ImgPrefix) + 1)
    ELSE s

\* lines 535-539: the name repl asks find_asset for
img_path(group) == strip_prefix(strip_parents(unquote(group)))

FileChars == LowerLetters \cup UpperLetters \cup Digits \cup {".", "_", "-"}

\* re.sub(r'[^a-zA-Z0-9._-]', '_', filename)
safe_filename(filename) ==
    [k \in 1..Len(filename) |->
        IF filename[k] \in FileChars THEN filename[k] ELSE "_"]

ImageExtensions == {<<".", "j", "p", "g">>, <<".", "j", "p", "e", "g">>, <<".", "p", "n", "g">>, <<".", "w", "e", "b", "p">>}

DotJpg == <<".", "j", "p", "g">>

\* How the transcoding of lines 446-454 ends: optimize_image returns data and
\* the data is written, optimize_image returns None, or writing the data raises
Transcodings == {"written", "no_data", "write_raises"}

\* What copy_asset returns, with the name and the content of the file it
\* wrote into ASSETS_DIR
Copied(name, content) ==
    [raised |-> FALSE, html |-> AssetsPrefix \o name,
     name |-> name, content |-> content]

\* copy_asset of a path find_asset returned. A path with the empty name is
\* the candidate directory itself, which shutil.copy2 refuses to copy. Line
\* 449 renames safe_filename before the data is written, so the copy that
\* follows a failed write (line 463) goes under the renamed file.
copy_asset(src_path, transcoding) ==
    LET filename == src_path.name
        is_image == Lower(Extension(filename)) \in ImageExtensions
        renamed == Stem(safe_filename(filename)) \o DotJpg
    IN  IF filename = <<>> THEN Raises
        ELSE IF is_image /\ transcoding = "written"
        THEN Copied(renamed, "jpeg")
        ELSE IF is_image /\ transcoding = "write_raises"
        THEN Copied(renamed, "original")
        ELSE Copied(safe_filename(filename), "original")

ImgOpen == <<"<", "i", "m", "g", " ", "s", "r", "c", "=", "\"">>

ImgClose == <<"\"", " ", "a", "l", "t", "=", "\"", "\"", "/", ">">>

NotFoundOpen == <<"[", "I", "m", "a", "g", "e", " ", "n", "o", "t", " ", "f", "o", "u", "n", "d", ":", " ">>

Placeholder(name) == NotFoundOpen \o name \o <<"]">>

\* lines 534-548; env holds the file system, the listing order and how the
\* transcoding of images ends
repl(group, env) ==
    LET name == img_path(group)
        asset_path == find_asset(env.fs, env.fold, env.order, name)
        new_path == copy_asset(asset_path, env.transcoding)
    IN  IF asset_path = NoAsset THEN Returns(Placeholder(name))
        ELSE IF new_path.raised THEN Raises
        ELSE Returns(ImgOpen \o new_path.html \o ImgClose)

MdOpen == <<"!", "[">>

\* md_pattern at position p: where the group of the match starts and where
\* the match ends, both 0 when the pattern does not match there
md_match(s, p) ==
    LET close == Find(s, p + 2, "]")
        paren == Find(s, close + 2, ")")
    IN  IF HasAt(s, p, MdOpen) /\ close # 0 /\ HasAt(s, close + 1, <<"(">>)
           /\ paren > close + 2
        THEN [group |-> close + 2, last |-> paren - 1, end |-> paren]
        ELSE [group |-> 0, last |-> 0, end |-> 0]

TagOpen == <<"<", "i", "m", "g">>

SrcOpen == <<"s", "r", "c", "=", "\"">>

\* html_pattern at position p; the greedy [^>]+ takes the last src=" of the
\* tag that lets the rest match
html_match(s, p) ==
    LET quote(j) == Find(s, j + Len(SrcOpen), "\"")
        close(j) == Find(s, quote(j) + 1, ">")
        srcs == {j \in (p + Len(TagOpen) + 1)..Len(s) :
                    /\ HasAt(s, j, SrcOpen)
                    /\ \A k \in (p + Len(TagOpen))..(j - 1) : s[k] # ">"
                    /\ quote(j) > j + Len(SrcOpen)
                    /\ close(j) # 0}
    IN  IF HasAt(s, p, TagOpen) /\ srcs # {}
        THEN [group |-> Max(srcs) + Len(SrcOpen),
              last |-> quote(Max(srcs)) - 1,
              end |-> close(Max(srcs))]
        ELSE [group |-> 0, last |-> 0, end |-> 0]

pattern_match(pattern, s, p) ==
    IF pattern = "md_pattern" THEN md_match(s, p) ELSE html_match(s, p)

RECURSIVE image_sub(_, _, _)
\* re.sub(pattern, repl, content): the matches from the left, each replaced
\* by what repl returns; the first repl that raises ends the call
image_sub(pattern, s, env) ==
    LET at == {p \in 1..Len(s) : pattern_match(pattern, s, p).end # 0}
        m == pattern_match(pattern, s, Min(at))
        new == repl(SubSeq(s, m.group, m.last), env)
        rest == image_sub(pattern, Tail_(s, m.end + 1), env)
    IN  IF at = {} THEN Returns(s)
        ELSE IF new.raised \/ rest.raised THEN Raises
        ELSE Returns(SubSeq(s, 1, Min(at) - 1) \o new.html \o rest.html)

\* lines 550-556
process_image_links(content, env) ==
    LET md == image_sub("md_pattern", content, env)
    IN  IF md.raised THEN Raises
        ELSE image_sub("html_pattern", md.html, env)

ImageTexts ==
    { <<"!", "[", "x", "]", "(", "a", "s", "s", "e", "t", "s", "/", ")">>,
      <<"!", "[", "x", "]", "(", "q", ".", "p", "n", "g", ")">>,
      <<"!", "[", "x", "]", "(", "m", "-", "p", ".", "J", "P", "G", ")">>,
      <<"<", "i", "m", "g", " ", "s", "r", "c", "=", "\"", "z", ".", "p", "n", "g", "\"", ">">>,
      <<"a", " ", "!", "[", "]", "(", ".", ".", "/", "i", "m", "g", "/", "q", "%", "2", "E", "p", "n", "g", ")", " ", "b">>,
      <<"t">>,
      <<"!", "[", "x", "]", "(", "q", ".", "p", "n", "g", ")", "!", "[", "y", "]", "(", "z", ".", "p", "n", "g", ")">>,
      <<"!", "[", "x", "]", "(", "m", "_", "p", "2", ".", "t", "x", "t", ")">> }

\* The references of a text are resolved with one candidate directory at
\* most; how find_asset orders several is SpecAsset's subject
ImageFileSystems ==
    {fs \in FileSystems :
        Cardinality({k \in 1..NumLocations : fs[k].exists}) <= 1}

ImagesInit ==
    /\ dirs \in ImageFileSystems
    /\ caseInsensitive \in BOOLEAN
    /\ Consistent(dirs, caseInsensitive)
    /\ text \in ImageTexts
    /\ ret = None
    /\ stage = "input"
    /\ IdleMain /\ IdlePublic

\* line = process_image_links(line)
ProcessImageLinks ==
    /\ stage = "input"
    /\ \E first \in FileUniverse, transcoding \in Transcodings :
          ret' = process_image_links(text,
                     [fs |-> dirs, fold |-> caseInsensitive,
                      order |-> ListedFirst(first),
                      transcoding |-> transcoding])
    /\ stage' = "rendered"
    /\ UNCHANGED <<text, dirs, caseInsensitive>>

ImagesNext == ProcessImageLinks /\ UNCHANGED mainVars

SpecImages == ImagesInit /\ [][ImagesNext]_vars

\* The names the image references of a text ask for
Requested(s) ==
    {img_path(SubSeq(s, m.group, m.last)) :
        m \in {pattern_match(pattern, s, p) :
                  pattern \in {"md_pattern", "html_pattern"},
                  p \in 1..Len(s)} \ {[group |-> 0, last |-> 0, end |-> 0]}}

\* No candidate directory holds a file that matches the name, by exact variant
\* or by substring
Unmatched(name) == \A lf \in Present : ~Resembles(name, lf[2])

\* C10 (as claimed): when no candidate directory holds a file matching an
\* image reference, find_asset returns the failure sentinel and
\* process_image_links replaces the reference by a placeholder that contains
\* the requested name, without raising.
C10_MissingImageGivesPlaceholder ==
    stage = "rendered"
        => \A name \in Requested(text) :
               Unmatched(name)
                   => /\ \A first \in FileUniverse :
                             find_asset(dirs, caseInsensitive,
                                        ListedFirst(first), name) = NoAsset
                      /\ ~ret.raised
                      /\ Contains(ret.html, Placeholder(name))

-----------------------------------------------------------------------------
\* optimize_image
\*
\* In this specification text holds the source image as Image.open reads it
\* (its width, height and mode) and ret what optimize_image returns: the JPEG
\* it encoded, or no data.

max_width == 2000

\* The largest dimension the JPEG encoder behind img.save accepts
JpegMaxDimension == 65500

NoData == [data |-> FALSE, width |-> 0, height |-> 0, mode |-> "none"]

Jpeg(width, height) ==
    [data |-> TRUE, width |-> width, height |-> height, mode |-> "RGB"]

ImageWidths == {1999, 2000, 2001, 2105, 3000, 4000}

ImageHeights == {1, 2, 3, 1000, 2105, 3000, 66000}

ImageModes == {"RGBA", "RGB", "P"}

Images ==
    [width : ImageWidths, height : ImageHeights, mode : ImageModes]

\* The sizes of Images for which the floating-point product
\* img.height * (max_width / img.width) falls just below its exact integer
\* value, so that int() gives one less
FloatShortfall == { <<2105, 2105>> }

\* lines 408-409
new_height(img) ==
    LET exact == (img.height * max_width) \div img.width
    IN  IF <<img.width, img.height>> \in FloatShortfall THEN exact - 1
        ELSE exact

\* lines 396-425: img.resize raises for a height below 1 and img.save for a
\* side above the encoder's limit; the except clause turns both into None
optimize_image(img) ==
    LET resizes == img.width > max_width
        width == IF resizes THEN max_width ELSE img.width
        height == IF resizes THEN new_height(img) ELSE img.height
    IN  IF resizes /\ height < 1 THEN NoData
        ELSE IF width > JpegMaxDimension \/ height > JpegMaxDimension
        THEN NoData
        ELSE Jpeg(width, height)

OptimizeInit ==
    /\ text \in Images
    /\ ret = None
    /\ stage = "input"
    /\ IdleMain /\ IdlePublic /\ IdleFs

\* optimized_data = optimize_image(src_path)
OptimizeImage ==
    /\ stage = "input"
    /\ ret' = optimize_image(text)
    /\ stage' = "optimized"
    /\ UNCHANGED text

OptimizeNext == OptimizeImage /\ UNCHANGED <<mainVars, fsVars>>

SpecOptimize == OptimizeInit /\ [][OptimizeNext]_vars

\* C11 (as claimed): for every source image wider than the 2000-pixel cap,
\* whatever its height, optimize_image returns a JPEG whose width is at most
\* 2000 and whose height is within one pixel of height * 2000 / width.
C11_WideImageTranscoded ==
    (stage = "optimized" /\ text.width > max_width)
        => /\ ret.data
           /\ ret.width <= max_width
           /\ ret.height * text.width - text.height * max_width <= text.width
           /\ text.height * max_width - ret.height * text.width <= text.width

-----------------------------------------------------------------------------
\* copy_asset on its own: text is the name of the source file, ret what
\* copy_asset returns

SourceStems ==
    { <<"m", "_", "p">>,
      <<"a", " ", "b">>,
      <<"x", ".", "y">>,
      <<"Z">>,
      <<"q", "-", "1">> }

SourceExtensions ==
    { <<".", "j", "p", "g">>,
      <<".", "J", "P", "G">>,
      <<".", "j", "p", "e", "g">>,
      <<".", "p", "n", "g">>,
      <<".", "w", "e", "b", "p">>,
      <<".", "t", "x", "t">>,
      <<>> }

CopyInit ==
    /\ text \in {stem \o ext : stem \in SourceStems, ext \in SourceExtensions}
    /\ ret = None
    /\ stage = "input"
    /\ IdleMain /\ IdlePublic /\ IdleFs

\* new_path = copy_asset(asset_path)
CopyAsset ==
    /\ stage = "input"
    /\ \E transcoding \in Transcodings :
          ret' = copy_asset([loc |-> 1, name |-> text], transcoding)
    /\ stage' = "copied"
    /\ UNCHANGED text

CopyNext == CopyAsset /\ UNCHANGED <<mainVars, fsVars>>

SpecCopy == CopyInit /\ [][CopyNext]_vars

\* C12 (as claimed): for a source with extension .jpg/.jpeg/.png/.webp, a
\* transcoded file is written under the sanitized basename with the extension
\* .jpg, a byte-for-byte copy (transcoding failed) under the sanitized name
\* with its original extension, and the returned path is 'assets/' plus the
\* name written.
C12_CopyKeepsExtensionOnFailure ==
    (stage = "copied" /\ Lower(Extension(text)) \in ImageExtensions)
        => /\ ~ret.raised
           /\ ret.content = "jpeg"
                 => ret.name = Stem(safe_filename(text)) \o DotJpg
           /\ ret.content = "original" => ret.name = safe_filename(text)
           /\ ret.html = AssetsPrefix \o ret.name

-----------------------------------------------------------------------------
\* The two renderings of a block tree: process_block inside
\* export_page_to_html, and block_tree_to_html
\*
\* text holds the block tree getPageBlocksTree returns: block n has the parent
\* text[n].parent (0 for a top-level block), its siblings follow in the order
\* of their numbers, and its content, stripped, is empty or not. ret is the
\* output as the sequence of its tags, the rendered text of block n being
\* one token.

BlockTrees ==
    {t \in [1..MaxBlocks -> [parent : 0..(MaxBlocks - 1),
                             content : {"text", "empty"}]] :
        \A n \in 1..MaxBlocks : t[n].parent < n}

Tag(name) == [tag |-> name, block |-> 0]

BlockText(n) == [tag |-> "text", block |-> n]

\* block.get("children", [])
children(t, n) == {c \in 1..Len(t) : t[c].parent = n}

RECURSIVE process_block(_, _)
RECURSIVE process_children(_, _, _)

\* lines 361-363: the children from number `from` on, each in its <li>
process_children(t, n, from) ==
    LET rest == {c \in children(t, n) : c >= from}
    IN  IF rest = {} THEN <<>>
        ELSE <<Tag("li")>> \o process_block(t, Min(rest)) \o <<Tag("/li")>>
             \o process_children(t, n, Min(rest) + 1)

\* lines 309-366
process_block(t, n) ==
    IF t[n].content = "empty" THEN <<>>
    ELSE <<Tag("div"), BlockText(n)>>
         \o (IF children(t, n) # {}
             THEN <<Tag("ul")>> \o process_children(t, n, 1) \o <<Tag("/ul")>>
             ELSE <<>>)
         \o <<Tag("/div")>>

RECURSIVE export_blocks(_, _)
\* lines 369-371: the top-level blocks in order
export_blocks(t, from) ==
    LET rest == {c \in children(t, 0) : c >= from}
    IN  IF rest = {} THEN <<>>
        ELSE process_block(t, Min(rest)) \o export_blocks(t, Min(rest) + 1)

RECURSIVE block_tree_to_html(_, _, _)
RECURSIVE tree_children(_, _, _, _)

\* lines 659-660: the renderings of the children, joined
tree_children(t, n, from, indent) ==
    LET rest == {c \in children(t, n) : c >= from}
    IN  IF rest = {} THEN <<>>
        ELSE block_tree_to_html(t, Min(rest), indent)
             \o tree_children(t, n, Min(rest) + 1, indent)

\* lines 630-667; child_html is not empty when a child renders to something or
\* when the join puts a newline between two children
block_tree_to_html(t, n, indent) ==
    LET child_html == tree_children(t, n, 1, indent + 1)
        html_content ==
            (IF t[n].content = "text" THEN <<BlockText(n)>> ELSE <<>>)
            \o (IF child_html # <<>> \/ Cardinality(children(t, n)) >= 2
                THEN <<Tag("ul")>> \o child_html \o <<Tag("/ul")>>
                ELSE <<>>)
    IN  IF t[n].content = "empty" /\ children(t, n) = {} THEN <<>>
        ELSE IF indent > 0 THEN <<Tag("li")>> \o html_content \o <<Tag("/li")>>
        ELSE html_content

RECURSIVE render_trees(_, _)
\* block_tree_to_html of each top-level block
render_trees(t, from) ==
    LET rest == {c \in children(t, 0) : c >= from}
    IN  IF rest = {} THEN <<>>
        ELSE block_tree_to_html(t, Min(rest), 0)
             \o render_trees(t, Min(rest) + 1)

BlocksInit ==
    /\ text \in BlockTrees
    /\ ret = None
    /\ stage = "input"
    /\ IdleMain /\ IdlePublic /\ IdleFs

\* html_content += process_block(block) for every top-level block
ExportBlocks ==
    /\ stage = "input"
    /\ ret' = export_blocks(text, 1)
    /\ stage' = "exported"
    /\ UNCHANGED text

\* block_tree_to_html(block, title, public_pages)
RenderTree ==
    /\ stage = "input"
    /\ ret' = render_trees(text, 1)
    /\ stage' = "rendered"
    /\ UNCHANGED text

BlocksNext ==
    \/ ExportBlocks /\ UNCHANGED <<mainVars, fsVars>>
    \/ RenderTree /\ UNCHANGED <<mainVars, fsVars>>

SpecBlocks == BlocksInit /\ [][BlocksNext]_vars

RECURSIVE SourceDepth(_, _)
\* The depth of block n in the source tree, 0 for a top-level block
SourceDepth(t, n) ==
    IF t[n].parent = 0 THEN 0 ELSE 1 + SourceDepth(t, t[n].parent)

\* Where the text of block n stands in the output
Places(out, n) == {k \in 1..Len(out) : out[k] = BlockText(n)}

\* The number of lists open at position k of the output
ListDepth(out, k) ==
    Cardinality({j \in 1..k : out[j] = Tag("ul")})
    - Cardinality({j \in 1..k : out[j] = Tag("/ul")})

\* C13 (as claimed): in both renderings every block with non-empty text
\* appears in the output, once, at a list-nesting depth equal to its depth in
\* the source tree, and siblings appear in input order.
C13_OutputMirrorsTree ==
    stage \in {"exported", "rendered"}
        => /\ \A n \in 1..Len(text) :
                 text[n].content = "text"
                     => /\ Cardinality(Places(ret, n)) = 1
                        /\ \A k \in Places(ret, n) :
                               ListDepth(ret, k) = SourceDepth(text, n)
           /\ \A a, b \in 1..Len(text) :
                 (a < b /\ text[a].parent = text[b].parent)
                     => \A j \in Places(ret, a), k \in Places(ret, b) : j < k

-----------------------------------------------------------------------------
\* The order of the two matching stages of find_asset (SpecAsset)

\* The candidate directory exists and holds an exact spelling variant of the
\* reference (for the empty reference: the directory itself)
HoldsVariant(loc) ==
    /\ dirs[loc].exists
    /\ \/ text = <<>>
       \/ \E v \in Spellings(text), g \in dirs[loc].entries :
             g = v \/ (caseInsensitive /\ Lower(g) = Lower(v))

\* The returned path is an exact-variant match
ReturnedVariant ==
    ret # NoAsset /\ ret.name \in Spellings(text) /\ HoldsVariant(ret.loc)

\* No file of an earlier candidate directory matches the reference in any way
NothingBefore(loc) ==
    \A lf \in Present : lf[1] < loc => ~Resembles(text, lf[2])

\* C14 (as claimed): whenever some existing candidate directory holds an exact
\* spelling variant of the reference, what find_asset returns is an
\* exact-variant match; a substring match is returned only if no directory
\* holds an exact variant.
C14_ExactBeforeSubstring ==
    (stage = "found" /\ \E loc \in 1..NumLocations : HoldsVariant(loc))
        => ReturnedVariant

\* C14 (amended): the order exact variant before substring match holds inside
\* each candidate directory, and the directories are tried in order: a
\* substring match from a directory is returned only if neither that
\* directory nor an earlier one holds an exact variant, and an exact variant
\* is returned from the first directory that holds one if no file of an
\* earlier directory matches by substring.
C14_ExactBeforeSubstringPerDirectory ==
    stage = "found"
        => /\ (ret # NoAsset /\ ~ReturnedVariant)
                 => \A loc \in 1..ret.loc : ~HoldsVariant(loc)
           /\ \A loc \in 1..NumLocations :
                 (HoldsVariant(loc) /\ NothingBefore(loc)
                  /\ \A k \in 1..(loc - 1) : ~HoldsVariant(k))
                     => ReturnedVariant /\ ret.loc = loc

\* One directory holds an exact variant and a file that matches by substring;
\* the exact variant is returned
C14_Witness ==
    /\ stage = "found"
    /\ text = <<"m", "-", "p", ".", "J", "P", "G">>
    /\ dirs[1].exists
    /\ dirs[1].entries = {<<"m", "_", "p", ".", "J", "P", "G">>, <<"m", "_", "p", "2", ".", "t", "x", "t">>}
    /\ ret = [loc |-> 1, name |-> <<"m", "_", "p", ".", "J", "P", "G">>]

-----------------------------------------------------------------------------
\* The id attributes format_properties emits (SpecProperties)

\* The elements with an id that one entry of the output holds, each with its
\* identifier before hashing and the number of its entry
EntryIds(entries, k) ==
    IF entries[k].kind # "properties" THEN <<>>
    ELSE <<[id |-> section_id(entries[k].pairs), run |-> k]>>
         \o [j \in 1..Len(entries[k].pairs) |->
                [id |-> key_id(entries[k].pairs[j]), run |-> k]]

ElementIds(entries) ==
    Concat([k \in 1..Len(entries) |-> EntryIds(entries, k)])

\* C15 (as claimed): with an injective hash (two ids are equal only if their
\* prefixes and the hashed strings are), no two elements that
\* format_properties emits for one text carry the same id, unless they belong
\* to two property runs with identical key/value content.
C15_IdsDistinct ==
    stage = "formatted"
        => LET ids == ElementIds(ret.entries)
           IN  \A i, j \in 1..Len(ids) :
                   (i < j /\ ids[i].id = ids[j].id)
                       => /\ ids[i].run # ids[j].run
                          /\ ret.entries[ids[i].run].pairs
                                 = ret.entries[ids[j].run].pairs

-----------------------------------------------------------------------------
\* The site index (Spec)

\* C16 (as claimed): after a run of main that reaches its final step,
\* index.html holds the site index written by generate_index_page: no write
\* of the page loop went to index.html.
C16_IndexHtmlIsSiteIndex ==
    pc = "done"
        => \E f \in written :
               f.name = IndexHtml /\ f.by = "generate_index_page"

-----------------------------------------------------------------------------
\* What repl hands to copy_asset: text is the reference as the pattern
\* captured it, ret the path find_asset returns for it

References ==
    { <<"/", "e">>,
      <<".", ".", ".", "/", ".", "/", "s", ".", "p", "n", "g">>,
      <<".", ".", "/", "s", ".", "p", "n", "g">>,
      <<"%", "2", "E", "%", "2", "E", "/", "s", ".", "p", "n", "g">>,
      <<"a", "s", "s", "e", "t", "s", "/", "/", "e">>,
      <<"a", "s", "s", "e", "t", "s", "/", "z", ".", "p", "n", "g">>,
      <<"s", "u", "b", "/", "z", ".", "p", "n", "g">>,
      <<"z", ".", "p", "n", "g">>,
      <<"m", "-", "p", ".", "J", "P", "G">> }

ReferenceInit ==
    /\ dirs \in ImageFileSystems
    /\ caseInsensitive \in BOOLEAN
    /\ Consistent(dirs, caseInsensitive)
    /\ text \in References
    /\ ret = None
    /\ stage = "input"
    /\ IdleMain /\ IdlePublic

\* lines 535-542: img_path is cleaned and looked up
ResolveReference ==
    /\ stage = "input"
    /\ \E first \in FileUniverse :
          ret' = find_asset(dirs, caseInsensitive, ListedFirst(first),
                            img_path(text))
    /\ stage' = "resolved"
    /\ UNCHANGED <<text, dirs, caseInsensitive>>

ReferenceNext == ResolveReference /\ UNCHANGED mainVars

SpecReference == ReferenceInit /\ [][ReferenceNext]_vars

\* The path os.path.join(location, name) stays inside the candidate
\* directory: the name is not absolute and has no ".." segment
Inside(path) ==
    /\ path.loc \in 1..NumLocations
    /\ ~StartsWith(path.name, <<"/">>)
    /\ ~StartsWith(path.name, ParentPrefix)
    /\ ~Contains(path.name, <<"/", ".", ".", "/">>)
    /\ path.name # <<".", ".">>

\* C17 (as claimed): whatever the reference, the file that
\* process_image_links hands to copy_asset lies inside one of the candidate
\* directories of find_asset.
C17_AssetInsideCandidateDirectory ==
    (stage = "resolved" /\ ret # NoAsset) => Inside(ret)
=============================================================================
